---- MODULE Spec2Model ----
(***************************************************************************)
(* Model of the UDP traceroute engine of traceroute-exporter:              *)
(* UDPTracer.Trace and UDPTracer.performHop (traceroute/udp_tracer.go)     *)
(* and TracerouteResult.CalculateRouteHash (traceroute/result.go).         *)
(*                                                                         *)
(* A behaviour of Spec is one invocation of Trace; LiveSpec is Spec with   *)
(* the fairness of the steps of Trace; SchedSpec is the monitoring         *)
(* goroutine of main, which calls Trace for each configured target;        *)
(* HashSpec applies CalculateRouteHash to hop lists.  The network, the     *)
(* resolver                                                                *)
(* and the operating system are the environment: every call into them      *)
(* (ResolveUDPAddr, ListenPacket, DialUDP, Write, ReadFrom) draws its      *)
(* outcome from a small set.  Wall-clock values (RTT, Duration) are not    *)
(* modelled; the expiry of the trace-level context is the action           *)
(* CtxExpire, which may fire at any moment after the context was created.  *)
(***************************************************************************)
EXTENDS Integers, Sequences, FiniteSets, TLC

\* ---------------------------------------------------------------- bounds
MaxHopsBound == 5

MaxHashHops == 3
MaxRounds == 2
MaxLiveHops == 3

\* ------------------------------------------------------ inputs of a trace
Targets == {"example.net"}
MaxHopsChoices == 1..MaxHopsBound
DefaultStartPort == 33434
StartPorts == {DefaultStartPort, DefaultStartPort + 100}
GOOSChoices == {"linux", "windows"}

\* net.IP values: sequences of bytes; the nil IP is the empty sequence
NilIP == <<>>
TargetIP == <<192, 0, 2, 1>>
RouterIP == <<10, 0, 0, 1>>
ResolvedIPs == {TargetIP}
PeerIPs == {RouterIP, TargetIP}

\* error values (nil is NoError)
NoError == "nil"
ErrResolve == "failed to resolve target"
ErrListen == "failed to create ICMP listener"
ErrTimeout == "traceroute timeout"
ErrDial == "failed to create UDP connection"
ErrSetTTL == "failed to set TTL"
ErrSend == "failed to send UDP packet"
ErrRead == "ICMP read error"
ErrShort == "ICMP message too short"
ErrType == "unexpected ICMP type"

\* ------------------------------------------------- what ReadFrom delivers
ICMPTimeExceeded == 11
ICMPDestUnreachable == 3
ICMPEchoReply == 0
ICMPHeaderLen == 8
ICMPTypes == {ICMPEchoReply, ICMPDestUnreachable, ICMPTimeExceeded}
MsgLens == {ICMPHeaderLen - 4, ICMPHeaderLen, ICMPHeaderLen + 28}
NoPeer == [kind |-> "none", IP |-> NilIP]
\* what made the network send a datagram: the probe of the hop in progress,
\* the probe of an earlier hop of this trace (a late reply), or anything
\* else (unrelated traffic, a reply to another trace)
Unrelated == "unrelated"
ThisProbe == "thisProbe"
EarlierProbe == "earlierProbe"
Causes == {Unrelated, ThisProbe, EarlierProbe}
\* a raw "ip4:icmp" listener reports its peers as *net.IPAddr
Peers == {[kind |-> "IPAddr", IP |-> ip] : ip \in PeerIPs}
ReadEvents ==
    {[kind |-> "timeout", n |-> 0, icmpType |-> 0, peer |-> NoPeer,
      cause |-> Unrelated],
     [kind |-> "error", n |-> 0, icmpType |-> 0, peer |-> NoPeer,
      cause |-> Unrelated]}
    \cup [kind : {"datagram"}, n : MsgLens, icmpType : ICMPTypes, peer : Peers,
          cause : Causes]
\* the locals n, peer, err, buffer of performHop before ReadFrom has returned
NoRead ==
    [kind |-> "none", n |-> 0, icmpType |-> 0, peer |-> NoPeer, cause |-> Unrelated]

\* ------------------------------------------------------------- HopResult
HopResult(ttl, ip, success, timeout, err) ==
    [Hop |-> ttl, IP |-> ip, Success |-> success, Timeout |-> timeout, Error |-> err]

NoHop == HopResult(0, NilIP, FALSE, FALSE, NoError)

DialErrorHop(ttl) == HopResult(ttl, NilIP, FALSE, FALSE, ErrDial)

SetTTLErrorHop(ttl) == HopResult(ttl, NilIP, FALSE, FALSE, ErrSetTTL)

SendErrorHop(ttl) == HopResult(ttl, NilIP, FALSE, FALSE, ErrSend)

TimeoutHop(ttl) == HopResult(ttl, NilIP, FALSE, TRUE, NoError)

ReadErrorHop(ttl) == HopResult(ttl, NilIP, FALSE, FALSE, ErrRead)

ShortMessageHop(ttl) == HopResult(ttl, NilIP, FALSE, FALSE, ErrShort)

UnexpectedTypeHop(ttl) == HopResult(ttl, NilIP, FALSE, FALSE, ErrType)

\* mutant of ExtractIP: the type assertion names the wrong address type
ExtractIPWrongType(peer) == IF peer.kind = "UDPAddr" THEN peer.IP ELSE NilIP

\* hopIP stays nil unless the peer is a *net.IPAddr
ExtractIP(peer) == IF peer.kind = "IPAddr" THEN peer.IP ELSE NilIP

SuccessHop(ttl, peer) == HopResult(ttl, ExtractIP(peer), TRUE, FALSE, NoError)

\* mutant of ClassifyRead: the ICMP type is looked at before the length
ClassifyReadTypeFirst(ttl, ev) ==
    IF ev.kind = "timeout" THEN TimeoutHop(ttl)
    ELSE IF ev.kind = "error" THEN ReadErrorHop(ttl)
    ELSE IF ev.icmpType # ICMPTimeExceeded /\ ev.icmpType # ICMPDestUnreachable
         THEN UnexpectedTypeHop(ttl)
    ELSE IF ev.n < ICMPHeaderLen THEN ShortMessageHop(ttl)
    ELSE SuccessHop(ttl, ev.peer)

\* mutant of ClassifyRead: a datagram is accepted only as the reply to the
\* probe of this very hop
ClassifyReadCorrelated(ttl, ev) ==
    IF ev.kind = "timeout" THEN TimeoutHop(ttl)
    ELSE IF ev.kind = "error" THEN ReadErrorHop(ttl)
    ELSE IF ev.n < ICMPHeaderLen THEN ShortMessageHop(ttl)
    ELSE IF ev.icmpType # ICMPTimeExceeded /\ ev.icmpType # ICMPDestUnreachable
         THEN UnexpectedTypeHop(ttl)
    ELSE IF ev.cause # ThisProbe THEN TimeoutHop(ttl)
    ELSE SuccessHop(ttl, ev.peer)

\* the part of performHop after ReadFrom returned event ev
ClassifyRead(ttl, ev) ==
    IF ev.kind = "timeout" THEN TimeoutHop(ttl)
    ELSE IF ev.kind = "error" THEN ReadErrorHop(ttl)
    ELSE IF ev.n < ICMPHeaderLen THEN ShortMessageHop(ttl)
    ELSE IF ev.icmpType # ICMPTimeExceeded /\ ev.icmpType # ICMPDestUnreachable
         THEN UnexpectedTypeHop(ttl)
    ELSE SuccessHop(ttl, ev.peer)

\* ------------------------------------------------------ TracerouteResult
\* net.IP.Equal on IPv4 addresses
IPEqual(a, b) == a = b

\* A uint32 is kept as <<high half, low half>>, two 16-bit halves, so that
\* hash*31 + b wraps modulo 2^32 exactly as the Go arithmetic does.
Pow2_16 == 65536
HashMult == 31
ZeroHash == <<0, 0>>

\* mutant of HashStep: the byte is added before the multiplication
HashStepAddFirst(hash, b) ==
    LET lo == (hash[2] + b) * HashMult
        hi == hash[1] * HashMult + (lo \div Pow2_16)
    IN <<hi % Pow2_16, lo % Pow2_16>>

\* mutant of HashStep: the multiplication is a shift by five bits
HashStepShift(hash, b) ==
    LET lo == hash[2] * (HashMult + 1) + b
        hi == hash[1] * (HashMult + 1) + (lo \div Pow2_16)
    IN <<hi % Pow2_16, lo % Pow2_16>>

HashStep(hash, b) ==
    LET lo == hash[2] * HashMult + b
        hi == hash[1] * HashMult + (lo \div Pow2_16)
    IN <<hi % Pow2_16, lo % Pow2_16>>

RECURSIVE HashBytes(_, _)
HashBytes(hash, ip) ==
    IF ip = <<>> THEN hash
    ELSE HashBytes(HashStep(hash, Head(ip)), Tail(ip))

\* mutant of HashHops: a hop without Success is folded in as one zero byte
RECURSIVE HashHopsCountAll(_, _)
HashHopsCountAll(hash, hops) ==
    IF hops = <<>> THEN hash
    ELSE HashHopsCountAll(IF Head(hops).Success /\ Head(hops).IP # NilIP
                          THEN HashBytes(hash, Head(hops).IP)
                          ELSE HashBytes(hash, <<0>>),
                          Tail(hops))

RECURSIVE HashHops(_, _)
HashHops(hash, hops) ==
    IF hops = <<>> THEN hash
    ELSE HashHops(IF Head(hops).Success /\ Head(hops).IP # NilIP
                  THEN HashBytes(hash, Head(hops).IP)
                  ELSE hash,
                  Tail(hops))

CalculateRouteHash(hops) == HashHops(ZeroHash, hops)

\* mutant of TotalHopsOf: counts the hops before the last one
TotalHopsOffByOne(hops) == IF hops = <<>> THEN 0 ELSE Len(hops) - 1

TotalHopsOf(hops) == Len(hops)

ZeroResult ==
    [Target |-> "", TargetName |-> "", Hops |-> <<>>, TotalHops |-> 0,
     Success |-> FALSE, RouteHash |-> ZeroHash, Error |-> NoError]

\* mutant of ResolveFailResult: the Error field is left unset
ResolveFailResultNoError(tgt) == [ZeroResult EXCEPT !.Target = tgt]

ResolveFailResult(tgt) ==
    [ZeroResult EXCEPT !.Target = tgt, !.Success = FALSE, !.Error = ErrResolve]

FreshResult(tgt) ==
    [ZeroResult EXCEPT !.Target = tgt, !.TargetName = tgt, !.Hops = <<>>,
                       !.Success = FALSE]

\* ------------------------------------------------------- loop of Trace
\* mutant of HopPort: the port is not rebased to hop 1
HopPortNoRebase(sp, h) == sp + h

HopPort(sp, h) == sp + h - 1

\* mutant of LoopCond: strict comparison
LoopCondStrict(h, mh) == h < mh

LoopCond(h, mh) == h <= mh

\* mutant of NextHop: the hop is tried again
NextHopStay(h) == h

\* mutant of NextHop: the counter is advanced twice
NextHopTwice(h) == h + 2

NextHop(h) == h + 1

\* mutant of SelectCtx: the timeout error is recorded while ctx is still live
SelectCtxInverted(res, done) ==
    IF ~done THEN [res EXCEPT !.Error = ErrTimeout] ELSE res

\* the select at the top of the loop body: its break leaves the select only,
\* so all it does is to set result.Error when ctx.Done() is closed
SelectCtx(res, done) ==
    IF done THEN [res EXCEPT !.Error = ErrTimeout] ELSE res

ReachedTarget(hr, addr) == hr.Success /\ hr.IP # NilIP /\ IPEqual(hr.IP, addr)

\* mutant of AnyResponder: only the exact address match ends the trace
AnyResponderNever(hr) == FALSE

\* mutant of AnyResponder: a timed-out hop also ends the trace
AnyResponderOrTimeout(hr) == hr.Success \/ hr.Timeout

AnyResponder(hr) == hr.Success /\ ~hr.Timeout

\* ------------------------------------------------------------------ state
VARIABLES
    pc,          \* position of the Trace invocation
    target,      \* argument target
    maxHops,     \* argument maxHops
    startPort,   \* argument startPort
    goos,        \* runtime.GOOS of the build
    targetAddr,  \* targetAddr.IP, NilIP while unresolved
    retErr,      \* the error Trace returns
    ctxExpired,  \* ctx.Done() is closed by the expiry of t.timeout
    result,      \* *TracerouteResult
    hop,         \* loop variable of Trace, ttl of performHop
    hopResult,   \* value performHop returns
    icmpConn,    \* the ICMP listener: "none", "open", "closed"
    udpConn,     \* the probe socket of the current hop
    udpOpened,   \* number of probe sockets opened per hop
    probes,      \* datagrams written, in order
    lastRead,    \* what ReadFrom returned to the performHop in progress
    readCount,   \* number of ReadFrom calls per hop
    schedPc,     \* position of the monitoring goroutine of main
    targetIdx,   \* index of the range loop over cfg.Targets
    round,       \* iteration of the outer for loop of the goroutine
    tickPending, \* ticker.C holds a tick
    active,      \* indices of the targets whose Trace call has not returned
    metricsFor,  \* index of the last target of this round given to updateMetrics
    other        \* a second TracerouteResult, to compare route hashes with

traceVars == <<pc, target, maxHops, startPort, goos, targetAddr, retErr,
               ctxExpired, result, hop, hopResult, icmpConn, udpConn, udpOpened,
               probes, lastRead, readCount>>

schedVars == <<schedPc, targetIdx, round, tickPending, active, metricsFor>>

vars == <<pc, target, maxHops, startPort, goos, targetAddr, retErr, ctxExpired,
          result, hop, hopResult, icmpConn, udpConn, udpOpened, probes,
          lastRead, readCount, schedPc, targetIdx, round, tickPending, active,
          metricsFor, other>>

hashVars == <<other>>

\* the TTL of a socket whose IP_TTL option was never set
UnsetTTL == 0

NoUDPConn == [state |-> "none", port |-> 0, ttl |-> UnsetTTL]

\* mutant of CloseConn: the deferred Close is missing
CloseConnMissing(c) == c

\* defer udpConn.Close()
CloseConn(c) == [c EXCEPT !.state = "closed"]

\* the state of a Trace invocation at its first statement
TraceEntry ==
    /\ pc = "resolve"
    /\ targetAddr = NilIP
    /\ retErr = NoError
    /\ ctxExpired = FALSE
    /\ result = ZeroResult
    /\ hop = 0
    /\ hopResult = NoHop
    /\ icmpConn = "none"
    /\ udpConn = NoUDPConn
    /\ udpOpened = [h \in 1..MaxHopsBound |-> 0]
    /\ probes = <<>>
    /\ lastRead = NoRead
    /\ readCount = [h \in 1..MaxHopsBound |-> 0]

\* the goroutine of main is not part of a behaviour of a single Trace
NoSched ==
    /\ schedPc = "none"
    /\ targetIdx = 0
    /\ round = 0
    /\ tickPending = FALSE
    /\ active = {}
    /\ metricsFor = 0

Init ==
    /\ target \in Targets
    /\ maxHops \in MaxHopsChoices
    /\ startPort \in StartPorts
    /\ goos \in GOOSChoices
    /\ TraceEntry
    /\ NoSched
    /\ other = ZeroResult

\* ---------------------------------------------------------------- Trace
ResolveFail ==
    /\ pc = "resolve"
    /\ result' = ResolveFailResult(target)
    /\ retErr' = ErrResolve
    /\ pc' = "done"
    /\ UNCHANGED <<target, maxHops, startPort, goos, targetAddr, ctxExpired,
                   hop, hopResult, icmpConn, udpConn, udpOpened, probes>>
    /\ UNCHANGED <<lastRead, readCount>>
    /\ UNCHANGED schedVars
    /\ UNCHANGED hashVars

ResolveOK ==
    /\ pc = "resolve"
    /\ \E ip \in ResolvedIPs : targetAddr' = ip
    /\ result' = FreshResult(target)
    /\ pc' = "listen"
    /\ UNCHANGED <<target, maxHops, startPort, goos, retErr, ctxExpired,
                   hop, hopResult, icmpConn, udpConn, udpOpened, probes>>
    /\ UNCHANGED <<lastRead, readCount>>
    /\ UNCHANGED schedVars
    /\ UNCHANGED hashVars

ListenFail ==
    /\ pc = "listen"
    /\ retErr' = ErrListen
    /\ pc' = "done"
    /\ UNCHANGED <<target, maxHops, startPort, goos, targetAddr, ctxExpired,
                   result, hop, hopResult, icmpConn, udpConn, udpOpened, probes>>
    /\ UNCHANGED <<lastRead, readCount>>
    /\ UNCHANGED schedVars
    /\ UNCHANGED hashVars

ListenOK ==
    /\ pc = "listen"
    /\ icmpConn' = "open"
    /\ hop' = 1
    /\ pc' = "for"
    /\ UNCHANGED <<target, maxHops, startPort, goos, targetAddr, retErr,
                   ctxExpired, result, hopResult, udpConn, udpOpened, probes>>
    /\ UNCHANGED <<lastRead, readCount>>
    /\ UNCHANGED schedVars
    /\ UNCHANGED hashVars

\* the deadline of context.WithTimeout passes
CtxExpire ==
    /\ pc \in {"listen", "for", "dial", "setTTL", "write", "read", "hopDone", "finish"}
    /\ ~ctxExpired
    /\ ctxExpired' = TRUE
    /\ UNCHANGED <<pc, target, maxHops, startPort, goos, targetAddr, retErr,
                   result, hop, hopResult, icmpConn, udpConn, udpOpened, probes>>
    /\ UNCHANGED <<lastRead, readCount>>
    /\ UNCHANGED schedVars
    /\ UNCHANGED hashVars

\* loop condition holds; the select runs; its break leaves the select only
LoopEnter ==
    /\ pc = "for"
    /\ LoopCond(hop, maxHops)
    /\ result' = SelectCtx(result, ctxExpired)
    /\ pc' = "dial"
    /\ UNCHANGED <<target, maxHops, startPort, goos, targetAddr, retErr,
                   ctxExpired, hop, hopResult, icmpConn, udpConn, udpOpened, probes>>
    /\ UNCHANGED <<lastRead, readCount>>
    /\ UNCHANGED schedVars
    /\ UNCHANGED hashVars

LoopExit ==
    /\ pc = "for"
    /\ ~LoopCond(hop, maxHops)
    /\ pc' = "finish"
    /\ UNCHANGED <<target, maxHops, startPort, goos, targetAddr, retErr,
                   ctxExpired, result, hop, hopResult, icmpConn, udpConn,
                   udpOpened, probes>>
    /\ UNCHANGED <<lastRead, readCount>>
    /\ UNCHANGED schedVars
    /\ UNCHANGED hashVars

\* ------------------------------------------------------------ performHop
DialFail ==
    /\ pc = "dial"
    /\ hopResult' = DialErrorHop(hop)
    /\ pc' = "hopDone"
    /\ UNCHANGED <<target, maxHops, startPort, goos, targetAddr, retErr,
                   ctxExpired, result, hop, icmpConn, udpConn, udpOpened, probes>>
    /\ UNCHANGED <<lastRead, readCount>>
    /\ UNCHANGED schedVars
    /\ UNCHANGED hashVars

DialOK ==
    /\ pc = "dial"
    /\ udpConn' = [state |-> "open", port |-> HopPort(startPort, hop),
                   ttl |-> UnsetTTL]
    /\ udpOpened' = [udpOpened EXCEPT ![hop] = @ + 1]
    /\ pc' = "setTTL"
    /\ UNCHANGED <<target, maxHops, startPort, goos, targetAddr, retErr,
                   ctxExpired, result, hop, hopResult, icmpConn, probes>>
    /\ UNCHANGED <<lastRead, readCount>>
    /\ UNCHANGED schedVars
    /\ UNCHANGED hashVars

\* setTTL: an error on windows, otherwise nothing at all
setTTL(os) == IF os = "windows" THEN ErrSetTTL ELSE NoError

SetTTLFail ==
    /\ pc = "setTTL"
    /\ setTTL(goos) # NoError
    /\ hopResult' = SetTTLErrorHop(hop)
    /\ udpConn' = CloseConn(udpConn)
    /\ pc' = "hopDone"
    /\ UNCHANGED <<target, maxHops, startPort, goos, targetAddr, retErr,
                   ctxExpired, result, hop, icmpConn, udpOpened, probes>>
    /\ UNCHANGED <<lastRead, readCount>>
    /\ UNCHANGED schedVars
    /\ UNCHANGED hashVars

SetTTLOK ==
    /\ pc = "setTTL"
    /\ setTTL(goos) = NoError
    /\ pc' = "write"
    /\ UNCHANGED <<target, maxHops, startPort, goos, targetAddr, retErr,
                   ctxExpired, result, hop, hopResult, icmpConn, udpConn,
                   udpOpened, probes>>
    /\ UNCHANGED <<lastRead, readCount>>
    /\ UNCHANGED schedVars
    /\ UNCHANGED hashVars

WriteFail ==
    /\ pc = "write"
    /\ hopResult' = SendErrorHop(hop)
    /\ udpConn' = CloseConn(udpConn)
    /\ pc' = "hopDone"
    /\ UNCHANGED <<target, maxHops, startPort, goos, targetAddr, retErr,
                   ctxExpired, result, hop, icmpConn, udpOpened, probes>>
    /\ UNCHANGED <<lastRead, readCount>>
    /\ UNCHANGED schedVars
    /\ UNCHANGED hashVars

WriteOK ==
    /\ pc = "write"
    /\ probes' = Append(probes, [hop |-> hop, port |-> udpConn.port,
                                  ttl |-> udpConn.ttl])
    /\ pc' = "read"
    /\ UNCHANGED <<target, maxHops, startPort, goos, targetAddr, retErr,
                   ctxExpired, result, hop, hopResult, icmpConn, udpConn, udpOpened>>
    /\ UNCHANGED <<lastRead, readCount>>
    /\ UNCHANGED schedVars
    /\ UNCHANGED hashVars

ReadFrom ==
    /\ pc = "read"
    /\ \E ev \in ReadEvents :
          /\ (ev.cause = EarlierProbe) =>
                 (\E i \in 1..Len(probes) : probes[i].hop < hop)
          /\ lastRead' = ev
          /\ hopResult' = ClassifyRead(hop, ev)
    /\ readCount' = [readCount EXCEPT ![hop] = @ + 1]
    /\ udpConn' = CloseConn(udpConn)
    /\ pc' = "hopDone"
    /\ UNCHANGED <<target, maxHops, startPort, goos, targetAddr, retErr,
                   ctxExpired, result, hop, icmpConn, udpOpened, probes>>
    /\ UNCHANGED schedVars
    /\ UNCHANGED hashVars

\* ------------------------------------------- Trace, after performHop
RecordHop ==
    /\ pc = "hopDone"
    /\ LET stop == ReachedTarget(hopResult, targetAddr) \/ AnyResponder(hopResult)
       IN /\ result' = [result EXCEPT !.Hops = Append(@, hopResult),
                                      !.Success = IF stop THEN TRUE ELSE @]
          /\ IF stop
             THEN pc' = "finish" /\ hop' = hop
             ELSE pc' = "for" /\ hop' = NextHop(hop)
    /\ lastRead' = NoRead
    /\ UNCHANGED readCount
    /\ UNCHANGED <<target, maxHops, startPort, goos, targetAddr, retErr,
                   ctxExpired, hopResult, icmpConn, udpConn, udpOpened, probes>>
    /\ UNCHANGED schedVars
    /\ UNCHANGED hashVars

Finish ==
    /\ pc = "finish"
    /\ result' = [result EXCEPT !.TotalHops = TotalHopsOf(result.Hops),
                                !.RouteHash = CalculateRouteHash(result.Hops)]
    /\ icmpConn' = "closed"
    /\ pc' = "done"
    /\ UNCHANGED <<target, maxHops, startPort, goos, targetAddr, retErr,
                   ctxExpired, hop, hopResult, udpConn, udpOpened, probes>>
    /\ UNCHANGED <<lastRead, readCount>>
    /\ UNCHANGED schedVars
    /\ UNCHANGED hashVars

Next ==
    \/ ResolveFail
    \/ ResolveOK
    \/ ListenFail
    \/ ListenOK
    \/ CtxExpire
    \/ LoopEnter
    \/ LoopExit
    \/ DialFail
    \/ DialOK
    \/ SetTTLFail
    \/ SetTTLOK
    \/ WriteFail
    \/ WriteOK
    \/ ReadFrom
    \/ RecordHop
    \/ Finish

Spec == Init /\ [][Next]_vars

TypeOK ==
    /\ pc \in {"resolve", "listen", "for", "dial", "setTTL", "write", "read",
               "hopDone", "finish", "done", "idle", "hashInput", "hashed",
               "hashedOther", "hashedChanged"}
    /\ maxHops \in MaxHopsChoices
    /\ ctxExpired \in BOOLEAN
    /\ icmpConn \in {"none", "open", "closed"}
    /\ Len(result.Hops) <= MaxHopsBound

\* --------------------------------------------- CalculateRouteHash alone
\* CalculateRouteHash is an exported method of an exported struct: it is
\* applied here to hop lists of any shape a caller can build from HopResults
\* as performHop makes them, with any number of Success hops.
CollideIPa == <<10, 0, 1, 0>>
CollideIPb == <<10, 0, 0, 31>>
HashIPs == {RouterIP, TargetIP, CollideIPa, CollideIPb}
ByteVals == {0, 1, 31, 255}

\* NilIP stands for a hop that timed out
HashHopAt(i, ip) ==
    IF ip = NilIP THEN TimeoutHop(i)
    ELSE SuccessHop(i, [kind |-> "IPAddr", IP |-> ip])

HashHopLists ==
    UNION {{[i \in 1..n |-> HashHopAt(i, c[i])] : c \in [1..n -> HashIPs \cup {NilIP}]}
           : n \in 0..MaxHashHops}

ResultOf(hops) ==
    [ZeroResult EXCEPT !.Hops = hops, !.RouteHash = CalculateRouteHash(hops)]

HashInit ==
    /\ pc = "hashInput"
    /\ \E hops \in HashHopLists : result = [ZeroResult EXCEPT !.Hops = hops]
    /\ other = ZeroResult
    /\ target \in Targets
    /\ maxHops = MaxHashHops
    /\ startPort = DefaultStartPort
    /\ goos = "linux"
    /\ targetAddr = NilIP
    /\ retErr = NoError
    /\ ctxExpired = FALSE
    /\ hop = 0
    /\ hopResult = NoHop
    /\ icmpConn = "none"
    /\ udpConn = NoUDPConn
    /\ udpOpened = [h \in 1..MaxHopsBound |-> 0]
    /\ probes = <<>>
    /\ lastRead = NoRead
    /\ readCount = [h \in 1..MaxHopsBound |-> 0]
    /\ NoSched

\* tr.CalculateRouteHash()
HashCalc ==
    /\ pc = "hashInput"
    /\ result' = ResultOf(result.Hops)
    /\ pc' = "hashed"
    /\ UNCHANGED <<target, maxHops, startPort, goos, targetAddr, retErr,
                   ctxExpired, hop, hopResult, icmpConn, udpConn, udpOpened,
                   probes, lastRead, readCount, other>>
    /\ UNCHANGED schedVars

\* CalculateRouteHash on a second result
HashOther ==
    /\ pc = "hashed"
    /\ \E hops \in HashHopLists : other' = ResultOf(hops)
    /\ pc' = "hashedOther"
    /\ UNCHANGED <<target, maxHops, startPort, goos, targetAddr, retErr,
                   ctxExpired, result, hop, hopResult, icmpConn, udpConn,
                   udpOpened, probes, lastRead, readCount>>
    /\ UNCHANGED schedVars

\* CalculateRouteHash on the result with one byte of one address changed
HashChangeByte ==
    /\ pc = "hashed"
    /\ \E k \in 1..Len(result.Hops) :
         \E j \in 1..4 :
           \E v \in ByteVals :
              /\ result.Hops[k].Success
              /\ j <= Len(result.Hops[k].IP)
              /\ v # result.Hops[k].IP[j]
              /\ other' = ResultOf([result.Hops EXCEPT ![k].IP[j] = v])
    /\ pc' = "hashedChanged"
    /\ UNCHANGED <<target, maxHops, startPort, goos, targetAddr, retErr,
                   ctxExpired, result, hop, hopResult, icmpConn, udpConn,
                   udpOpened, probes, lastRead, readCount>>
    /\ UNCHANGED schedVars

HashNext ==
    \/ HashCalc
    \/ HashOther
    \/ HashChangeByte

HashSpec == HashInit /\ [][HashNext]_vars

\* ------------------------------------------- the monitoring goroutine of main
\* cfg.Targets after LoadConfig
CfgTargets ==
    <<[Host |-> "example.net", Name |-> "net", MaxHops |-> 2,
       StartPort |-> DefaultStartPort],
      [Host |-> "example.org", Name |-> "org", MaxHops |-> 1,
       StartPort |-> DefaultStartPort + 100]>>

SchedInit ==
    /\ pc = "idle"
    /\ target = ""
    /\ maxHops = 1
    /\ startPort = 0
    /\ goos \in GOOSChoices
    /\ targetAddr = NilIP
    /\ retErr = NoError
    /\ ctxExpired = FALSE
    /\ result = ZeroResult
    /\ hop = 0
    /\ hopResult = NoHop
    /\ icmpConn = "none"
    /\ udpConn = NoUDPConn
    /\ udpOpened = [h \in 1..MaxHopsBound |-> 0]
    /\ probes = <<>>
    /\ lastRead = NoRead
    /\ readCount = [h \in 1..MaxHopsBound |-> 0]
    /\ other = ZeroResult
    /\ schedPc = "range"
    /\ targetIdx = 1
    /\ round = 1
    /\ tickPending = FALSE
    /\ active = {}
    /\ metricsFor = 0

\* the ticker puts a tick into ticker.C, a channel of capacity one
TickerFire ==
    /\ schedPc # "none"
    /\ ~tickPending
    /\ tickPending' = TRUE
    /\ UNCHANGED traceVars
    /\ UNCHANGED <<schedPc, targetIdx, round, active, metricsFor>>
    /\ UNCHANGED hashVars

\* tracer.Trace(target.Host, target.MaxHops, target.StartPort) is entered
SchedCallTrace ==
    /\ schedPc = "range"
    /\ targetIdx <= Len(CfgTargets)
    /\ target' = CfgTargets[targetIdx].Host
    /\ maxHops' = CfgTargets[targetIdx].MaxHops
    /\ startPort' = CfgTargets[targetIdx].StartPort
    /\ pc' = "resolve"
    /\ targetAddr' = NilIP
    /\ retErr' = NoError
    /\ ctxExpired' = FALSE
    /\ result' = ZeroResult
    /\ hop' = 0
    /\ hopResult' = NoHop
    /\ icmpConn' = "none"
    /\ udpConn' = NoUDPConn
    /\ udpOpened' = [h \in 1..MaxHopsBound |-> 0]
    /\ probes' = <<>>
    /\ lastRead' = NoRead
    /\ readCount' = [h \in 1..MaxHopsBound |-> 0]
    /\ active' = active \cup {targetIdx}
    /\ schedPc' = "tracing"
    /\ UNCHANGED <<goos, targetIdx, round, tickPending, metricsFor>>
    /\ UNCHANGED hashVars

\* Trace has returned; result.TargetName is set when err is nil
SchedTraceReturn ==
    /\ schedPc = "tracing"
    /\ pc = "done"
    /\ result' = IF retErr = NoError
                 THEN [result EXCEPT !.TargetName = CfgTargets[targetIdx].Name]
                 ELSE result
    /\ active' = active \ {targetIdx}
    /\ schedPc' = "update"
    /\ UNCHANGED <<pc, target, maxHops, startPort, goos, targetAddr, retErr,
                   ctxExpired, hop, hopResult, icmpConn, udpConn, udpOpened,
                   probes, lastRead, readCount>>
    /\ UNCHANGED <<targetIdx, round, tickPending, metricsFor>>
    /\ UNCHANGED hashVars

\* updateMetrics(result), then the range loop moves to the next target
SchedUpdateMetrics ==
    /\ schedPc = "update"
    /\ metricsFor' = targetIdx
    /\ targetIdx' = targetIdx + 1
    /\ schedPc' = "range"
    /\ UNCHANGED traceVars
    /\ UNCHANGED <<round, tickPending, active>>
    /\ UNCHANGED hashVars

\* the range loop is over
SchedRangeDone ==
    /\ schedPc = "range"
    /\ targetIdx > Len(CfgTargets)
    /\ schedPc' = "wait"
    /\ UNCHANGED traceVars
    /\ UNCHANGED <<targetIdx, round, tickPending, active, metricsFor>>
    /\ UNCHANGED hashVars

\* mutant of TickReceived: the receive from ticker.C is missing
TickNotAwaited(pending) == TRUE

\* <-ticker.C returns only when the channel holds a tick
TickReceived(pending) == pending

SchedTick ==
    /\ schedPc = "wait"
    /\ round < MaxRounds
    /\ TickReceived(tickPending)
    /\ tickPending' = FALSE
    /\ round' = round + 1
    /\ targetIdx' = 1
    /\ metricsFor' = 0
    /\ schedPc' = "range"
    /\ UNCHANGED traceVars
    /\ UNCHANGED active
    /\ UNCHANGED hashVars

SchedNext ==
    \/ TickerFire
    \/ SchedCallTrace
    \/ SchedTraceReturn
    \/ SchedUpdateMetrics
    \/ SchedRangeDone
    \/ SchedTick
    \/ ResolveFail
    \/ ResolveOK
    \/ ListenFail
    \/ ListenOK
    \/ CtxExpire
    \/ LoopEnter
    \/ LoopExit
    \/ DialFail
    \/ DialOK
    \/ SetTTLFail
    \/ SetTTLOK
    \/ WriteFail
    \/ WriteOK
    \/ ReadFrom
    \/ RecordHop
    \/ Finish

SchedSpec == SchedInit /\ [][SchedNext]_vars

\* ------------------------------------------------- one Trace, scheduled
\* every step of Trace but the expiry of its context
TraceStep ==
    \/ ResolveFail
    \/ ResolveOK
    \/ ListenFail
    \/ ListenOK
    \/ LoopEnter
    \/ LoopExit
    \/ DialFail
    \/ DialOK
    \/ SetTTLFail
    \/ SetTTLOK
    \/ WriteFail
    \/ WriteOK
    \/ ReadFrom
    \/ RecordHop
    \/ Finish

LiveInit ==
    /\ Init
    /\ maxHops <= MaxLiveHops

\* the goroutine that runs Trace is scheduled again and again, and the read
\* deadline armed before the write makes ReadFrom return
LiveSpec == LiveInit /\ [][Next]_vars /\ WF_vars(TraceStep)

\* ------------------------------------------------------------ properties
HopExecuting == pc \in {"dial", "setTTL", "write", "read", "hopDone"}

NoSuccessHop == \A k \in 1..Len(result.Hops) : ~result.Hops[k].Success

HopLocalFailure(hr) == ~hr.Success /\ (hr.Timeout \/ hr.Error # NoError)

\* C1: a Success hop k whose address equals the resolved target address is
\* the last hop recorded; the trace leaves the loop with Success = true and
\* returns TotalHops = k.
C1_ReachedTargetEndsTrace ==
    \A k \in 1..Len(result.Hops) :
        (result.Hops[k].Success /\ IPEqual(result.Hops[k].IP, targetAddr)) =>
            /\ Len(result.Hops) = k
            /\ pc \in {"finish", "done"}
            /\ result.Success
            /\ (pc = "done" => result.TotalHops = k /\ retErr = NoError)

C1_Witness ==
    /\ pc = "done"
    /\ maxHops > 3
    /\ Len(result.Hops) = 3
    /\ result.Hops[3].Success
    /\ IPEqual(result.Hops[3].IP, targetAddr)
    /\ result.TotalHops = 3

C3_HopIndicesConsecutive ==
    /\ Len(result.Hops) <= maxHops
    /\ \A i \in 1..Len(result.Hops) : result.Hops[i].Hop = i

C3_Witness ==
    /\ pc = "done"
    /\ maxHops >= 3
    /\ Len(result.Hops) = maxHops
    /\ result.Hops[maxHops].Hop = maxHops

\* C4: when hop t < maxHops ended with Timeout or Error, the step of Trace
\* that follows appends that outcome as hop t and moves to hop t+1, and the
\* step after it starts hop t+1 (it dials the probe socket) whatever ctx is.
C4_HopFailureContinues ==
    [][ /\ (pc = "hopDone" /\ pc' # "hopDone" /\ HopLocalFailure(hopResult)
              /\ hop < maxHops)
            => /\ result'.Hops = Append(result.Hops, hopResult)
               /\ pc' = "for"
               /\ hop' = hop + 1
        /\ (pc = "for" /\ pc' # "for" /\ hop <= maxHops)
            => /\ pc' = "dial"
               /\ hop' = hop
               /\ result'.Hops = result.Hops ]_vars

C4_Witness ==
    /\ pc = "dial"
    /\ hop = 3
    /\ Len(result.Hops) = 2
    /\ result.Hops[1].Timeout
    /\ result.Hops[2].Error = ErrType

\* C5 as stated: once the expiry of the trace timeout was seen at the top of
\* the loop (result.Error is the timeout error), no hop is executed any more.
C5_NoHopAfterExpirySeen ==
    HopExecuting => result.Error # ErrTimeout

\* C6: after a failed resolution Trace has returned: the result has no hop,
\* Success = false and its Error set, no probe was written, the ICMP
\* listener was never opened and no probe socket either; and while the
\* target is unresolved nothing of all this has happened.
C6_ResolveFailureIsFatal ==
    /\ (retErr = ErrResolve) =>
           /\ pc = "done"
           /\ targetAddr = NilIP
           /\ result.Error # NoError
           /\ ~result.Success
           /\ result.TotalHops = 0
    /\ (targetAddr = NilIP) =>
           /\ result.Hops = <<>>
           /\ probes = <<>>
           /\ icmpConn = "none"
           /\ udpConn.state = "none"
           /\ \A h \in DOMAIN udpOpened : udpOpened[h] = 0

C6_Witness ==
    /\ pc = "done"
    /\ retErr = ErrResolve
    /\ result.Error = ErrResolve
    /\ result.Hops = <<>>

\* C7 as stated: a trace of three or more hops whose hop 1 timed out and
\* whose hop 2 succeeded from a non-target address goes on to hop 3; and
\* when hop 3 succeeds from the target address the result has Success,
\* TotalHops = 3 and the hash folded over the hop 2 then the hop 3 address.
C7_IntermediateHopKeepsProbing ==
    (/\ pc = "done"
     /\ maxHops >= 3
     /\ Len(result.Hops) >= 2
     /\ result.Hops[1].Timeout
     /\ result.Hops[2].Success
     /\ ~IPEqual(result.Hops[2].IP, targetAddr)) =>
        /\ Len(result.Hops) >= 3
        /\ (result.Hops[3].Success /\ IPEqual(result.Hops[3].IP, targetAddr)) =>
              /\ result.Success
              /\ result.TotalHops = 3
              /\ result.RouteHash =
                     HashBytes(HashBytes(ZeroHash, result.Hops[2].IP),
                               result.Hops[3].IP)

\* C8: every HopResult returned by performHop, and so every recorded one,
\* has an address iff it is a Success, and exactly one of Success, Timeout
\* and Error holds.
WellFormedHop(hr) ==
    /\ (hr.IP # NilIP) <=> hr.Success
    /\ ~(hr.Success /\ hr.Timeout)
    /\ Cardinality({x \in {"s", "t", "e"} :
                      \/ x = "s" /\ hr.Success
                      \/ x = "t" /\ hr.Timeout
                      \/ x = "e" /\ hr.Error # NoError}) = 1
    /\ ((hr.Success \/ hr.Timeout) => hr.Error = NoError)

C8_HopResultWellFormed ==
    /\ (pc = "hopDone" => WellFormedHop(hopResult))
    /\ \A k \in 1..Len(result.Hops) : WellFormedHop(result.Hops[k])

C8_Witness ==
    /\ pc = "hopDone"
    /\ hopResult.Success
    /\ hopResult.IP = RouterIP
    /\ Len(result.Hops) = 2
    /\ result.Hops[1].Timeout
    /\ result.Hops[2].Error = ErrShort

\* C9 as stated: a returned result with one or more hops has no Error.
C9_Original ==
    (pc = "done" /\ Len(result.Hops) >= 1) => result.Error = NoError

\* C9 amended: the Error of a returned result is set only when resolution
\* failed (then there is no hop) or when the trace timeout had expired at
\* the top of a loop iteration (then it is the timeout error); a result
\* with hops whose trace timeout did not expire has no Error.
C9_ErrorOnlyResolveOrTimeout ==
    pc = "done" =>
        /\ result.Error \in {NoError, ErrResolve, ErrTimeout}
        /\ (result.Error = ErrResolve) <=> (retErr = ErrResolve)
        /\ (result.Error = ErrResolve) => result.Hops = <<>>
        /\ (result.Error = ErrTimeout) => (ctxExpired /\ Len(result.Hops) >= 1)
        /\ (Len(result.Hops) >= 1 /\ ~ctxExpired) => result.Error = NoError

C9_Witness ==
    /\ pc = "done"
    /\ Len(result.Hops) = 2
    /\ result.Error = ErrTimeout
    /\ ctxExpired

\* C10: every probe written for hop k went to port startPort + (k-1); from
\* one probe to the next the port grows as the hop index does, by 1 from a
\* hop to the next one; a hop writes one probe at most.
C10_ProbePort ==
    /\ \A i \in 1..Len(probes) :
           /\ probes[i].port = startPort + (probes[i].hop - 1)
           /\ i > 1 => /\ probes[i].hop > probes[i-1].hop
                       /\ probes[i].port - probes[i-1].port
                              = probes[i].hop - probes[i-1].hop
    /\ (udpConn.state = "open" => udpConn.port = startPort + (hop - 1))

C10_Witness ==
    /\ Len(probes) = 3
    /\ probes[1].hop = 1
    /\ probes[2].hop = 2
    /\ probes[3].hop = 4
    /\ probes[2].port = probes[1].port + 1

\* C14: when performHop returns after its probe was written, its result is
\* the one the single ReadFrom event dictates: a deadline expiry gives
\* Timeout, another socket error the read error, a datagram of fewer than
\* 8 bytes the short-message error whatever its byte 0, a longer one of type
\* 11 or 3 Success with the address of the sender, a longer one of another
\* type the unexpected-type error; and no hop reads twice.
C14_FirstEventDecides ==
    /\ \A h \in DOMAIN readCount : readCount[h] <= 1
    /\ (pc = "hopDone" /\ lastRead.kind # "none") =>
          /\ readCount[hop] = 1
          /\ hopResult.Hop = hop
          /\ (lastRead.kind = "timeout") =>
                 /\ hopResult.Timeout
                 /\ ~hopResult.Success
                 /\ hopResult.Error = NoError
          /\ (lastRead.kind = "error") =>
                 /\ hopResult.Error = ErrRead
                 /\ ~hopResult.Success /\ ~hopResult.Timeout
          /\ (lastRead.kind = "datagram" /\ lastRead.n < 8) =>
                 /\ hopResult.Error = ErrShort
                 /\ ~hopResult.Success /\ ~hopResult.Timeout
          /\ (lastRead.kind = "datagram" /\ lastRead.n >= 8
                /\ lastRead.icmpType \in {11, 3}) =>
                 /\ hopResult.Success
                 /\ hopResult.IP = lastRead.peer.IP
                 /\ hopResult.Error = NoError /\ ~hopResult.Timeout
          /\ (lastRead.kind = "datagram" /\ lastRead.n >= 8
                /\ lastRead.icmpType \notin {11, 3}) =>
                 /\ hopResult.Error = ErrType
                 /\ ~hopResult.Success /\ ~hopResult.Timeout

C14_Witness ==
    /\ pc = "hopDone"
    /\ hop = 2
    /\ lastRead.kind = "datagram"
    /\ lastRead.n < 8
    /\ lastRead.icmpType = 0
    /\ hopResult.Error = ErrShort
    /\ readCount[2] = 1

\* C15 as stated: every probe written for hop t left a socket whose TTL
\* was set to t.
C15_ProbeCarriesHopTTL ==
    \A i \in 1..Len(probes) : probes[i].ttl = probes[i].hop

\* C16: the ICMP listener is opened once at most, only in the listen step
\* after the target resolved and before any probe socket; it is open only
\* while Trace runs its loop and never after Trace returned; a hop opens
\* one probe socket at most, which is open only inside performHop and
\* closed once performHop has returned; no socket is open after the return.
C16_SocketLifetime ==
    /\ [](/\ (icmpConn = "open") =>
                 (targetAddr # NilIP /\ pc \notin {"resolve", "listen", "done"})
          /\ (pc = "done") => (icmpConn # "open" /\ udpConn.state # "open")
          /\ \A h \in DOMAIN udpOpened : udpOpened[h] <= 1
          /\ (udpConn.state = "open") =>
                 (pc \in {"setTTL", "write", "read"} /\ icmpConn = "open")
          /\ (\E h \in DOMAIN udpOpened : udpOpened[h] > 0) => icmpConn # "none")
    /\ [][/\ (icmpConn' = "open" /\ icmpConn # "open") =>
                 (icmpConn = "none" /\ pc = "listen")
          /\ (icmpConn = "closed") => (icmpConn' = "closed")]_vars

C16_Witness ==
    /\ pc = "done"
    /\ icmpConn = "closed"
    /\ udpConn.state = "closed"
    /\ Len(result.Hops) = 3
    /\ udpOpened[1] = 1 /\ udpOpened[2] = 0 /\ udpOpened[3] = 1
    /\ result.Hops[1].Timeout
    /\ result.Hops[3].Success

\* C17: a datagram of 8 or more bytes and of type 11 or 3 that ReadFrom
\* returns during hop t and that the probe of hop t did not cause (it is
\* unrelated traffic or the late reply to an earlier probe) makes hop t a
\* Success with the address of its sender.
C17_Misattribution ==
    (/\ pc = "hopDone"
     /\ lastRead.kind = "datagram"
     /\ lastRead.n >= 8
     /\ lastRead.icmpType \in {11, 3}
     /\ lastRead.cause # ThisProbe) =>
        /\ hopResult.Hop = hop
        /\ hopResult.Success
        /\ hopResult.IP = lastRead.peer.IP

C17_Witness ==
    /\ pc = "hopDone"
    /\ hop = 2
    /\ Len(result.Hops) = 1
    /\ result.Hops[1].Timeout
    /\ lastRead.kind = "datagram"
    /\ lastRead.cause = EarlierProbe
    /\ probes[1].hop = 1
    /\ lastRead.icmpType = 11
    /\ hopResult.Success
    /\ hopResult.Hop = 2
    /\ hopResult.IP = RouterIP

\* C20: a returned result with hops has one Success hop at most, and that
\* one is the last of the list; result.Success holds iff the last hop is a
\* Success, be its address the target address or not.
C20_SuccessIsLastHop ==
    (pc = "done" /\ Len(result.Hops) >= 1) =>
        /\ \A k \in 1..Len(result.Hops) :
               result.Hops[k].Success => k = Len(result.Hops)
        /\ result.Success <=> result.Hops[Len(result.Hops)].Success

C20_Witness ==
    /\ pc = "done"
    /\ maxHops > 2
    /\ Len(result.Hops) = 2
    /\ result.Hops[2].Success
    /\ ~IPEqual(result.Hops[2].IP, targetAddr)
    /\ result.Success

\* the addresses of the Success hops of a hop list, in hop order
RECURSIVE SuccessAddrs(_)
SuccessAddrs(hops) ==
    IF hops = <<>> THEN <<>>
    ELSE IF Head(hops).Success
         THEN <<Head(hops).IP>> \o SuccessAddrs(Tail(hops))
         ELSE SuccessAddrs(Tail(hops))

RECURSIVE Flatten(_)
Flatten(ips) == IF ips = <<>> THEN <<>> ELSE Head(ips) \o Flatten(Tail(ips))

\* acc*31 + b modulo 2^32 on four base-256 digits, most significant first
RefMulAdd(acc, b) ==
    LET d0 == acc[4] * 31 + b
        d1 == acc[3] * 31 + (d0 \div 256)
        d2 == acc[2] * 31 + (d1 \div 256)
        d3 == acc[1] * 31 + (d2 \div 256)
    IN <<d3 % 256, d2 % 256, d1 % 256, d0 % 256>>

\* the left fold from 0, written on the last byte and the fold of the rest
RECURSIVE RefFold(_)
RefFold(bytes) ==
    IF bytes = <<>> THEN <<0, 0, 0, 0>>
    ELSE RefMulAdd(RefFold(SubSeq(bytes, 1, Len(bytes) - 1)), bytes[Len(bytes)])

RefHash(hops) ==
    LET d == RefFold(Flatten(SuccessAddrs(hops)))
    IN <<d[1] * 256 + d[2], d[3] * 256 + d[4]>>

Hashed == pc \in {"hashed", "hashedOther", "hashedChanged"}

\* C11: the route hash of a result is the left fold from 0 of
\* acc := (acc*31 + byte) mod 2^32 over the bytes of the addresses of its
\* Success hops in hop order; it is 0 when no hop is a Success.
C11_RouteHashIsFold ==
    /\ Hashed =>
          /\ result.RouteHash = RefHash(result.Hops)
          /\ (\A k \in 1..Len(result.Hops) : ~result.Hops[k].Success)
                 => result.RouteHash = <<0, 0>>
    /\ (pc \in {"hashedOther", "hashedChanged"}) =>
          other.RouteHash = RefHash(other.Hops)

C11_Witness ==
    /\ pc = "hashed"
    /\ Len(result.Hops) = 3
    /\ result.Hops[1].Success /\ result.Hops[1].IP = TargetIP
    /\ result.Hops[2].Timeout
    /\ result.Hops[3].Success /\ result.Hops[3].IP = RouterIP
    /\ result.RouteHash = RefHash(result.Hops)
    /\ result.RouteHash # <<0, 0>>

\* C12 as stated: two results have the same route hash iff the sequences
\* of their successful addresses are the same.
C12_Original ==
    (pc = "hashedOther") =>
        ((result.RouteHash = other.RouteHash)
             <=> (SuccessAddrs(result.Hops) = SuccessAddrs(other.Hops)))

\* C12 amended: two results whose sequences of successful addresses are the
\* same have the same route hash, whatever their other hops are.
C12_EqualAddrsEqualHash ==
    (pc = "hashedOther"
       /\ SuccessAddrs(result.Hops) = SuccessAddrs(other.Hops)) =>
        result.RouteHash = other.RouteHash

C12_Witness ==
    /\ pc = "hashedOther"
    /\ result.Hops # other.Hops
    /\ Len(result.Hops) = 3 /\ Len(other.Hops) = 2
    /\ result.Hops[2].Timeout
    /\ SuccessAddrs(result.Hops) = <<RouterIP, TargetIP>>
    /\ SuccessAddrs(other.Hops) = <<RouterIP, TargetIP>>
    /\ result.RouteHash = other.RouteHash

\* the two hop lists are the same but for one byte of one Success address
OneByteChanged(a, b) ==
    /\ Len(a) = Len(b)
    /\ \A k \in 1..Len(a) :
          /\ a[k].Success = b[k].Success
          /\ Len(a[k].IP) = Len(b[k].IP)
    /\ Cardinality({kj \in (1..Len(a)) \X (1..4) :
                      /\ a[kj[1]].Success
                      /\ kj[2] <= Len(a[kj[1]].IP)
                      /\ a[kj[1]].IP[kj[2]] # b[kj[1]].IP[kj[2]]}) = 1

\* C13: two results that differ in exactly one byte of one successful
\* address have different route hashes.
C13_OneByteChangesHash ==
    (pc \in {"hashedOther", "hashedChanged"}
       /\ OneByteChanged(result.Hops, other.Hops)) =>
        result.RouteHash # other.RouteHash

C13_Witness ==
    /\ pc = "hashedChanged"
    /\ Len(result.Hops) = 3
    /\ \A k \in 1..3 : result.Hops[k].Success
    /\ OneByteChanged(result.Hops, other.Hops)
    /\ result.Hops[1].IP[1] # other.Hops[1].IP[1]
    /\ result.RouteHash # other.RouteHash

\* C18: one Trace call at most is in progress, and Trace takes steps only
\* inside the call of the goroutine; a call for target i of a round is made
\* only when no call is in progress and the metrics of targets 1..i-1 of the
\* round were updated (target 1 first); a new round begins only by taking a
\* tick out of ticker.C, after the metrics of the last target.
C18_OneTraceAtATime ==
    /\ [](/\ Cardinality(active) <= 1
          /\ (pc \notin {"idle", "done"}) =>
                 (schedPc = "tracing" /\ active = {targetIdx})
          /\ (schedPc = "tracing") =>
                 /\ targetIdx \in 1..Len(CfgTargets)
                 /\ target = CfgTargets[targetIdx].Host
                 /\ metricsFor = targetIdx - 1)
    /\ [][/\ (active' # active /\ active' # {}) =>
                 /\ active = {}
                 /\ active' = {metricsFor + 1}
                 /\ schedPc # "tracing"
          /\ (pc' = "resolve" /\ pc # "resolve") =>
                 (pc \in {"idle", "done"} /\ active = {} /\ active' # {})
          /\ (round' # round) =>
                 /\ round' = round + 1
                 /\ tickPending /\ ~tickPending'
                 /\ metricsFor = Len(CfgTargets)
                 /\ active = {}]_vars

C18_Witness ==
    /\ round = 2
    /\ schedPc = "tracing"
    /\ targetIdx = 2
    /\ metricsFor = 1
    /\ pc = "read"
    /\ active = {2}

\* C19: every Trace returns; it records maxHops hops at most, and a hop
\* writes one probe at most and calls ReadFrom once at most.
C19_TraceTerminates ==
    /\ <>(pc = "done")
    /\ [](/\ Len(result.Hops) <= maxHops
          /\ \A h \in DOMAIN readCount :
                /\ readCount[h] <= 1
                /\ Cardinality({i \in 1..Len(probes) : probes[i].hop = h}) <= 1
                /\ (h > maxHops) => (readCount[h] = 0 /\ udpOpened[h] = 0))

C19_Witness ==
    /\ pc = "done"
    /\ maxHops = 3
    /\ Len(result.Hops) = 3
    /\ Len(probes) = 3
    /\ \A h \in 1..3 : readCount[h] = 1
    /\ ctxExpired

====
